---------------------------- MODULE Spec2Model ----------------------------
(***************************************************************************)
(* Model of scripts/expand_keywords.py: the keyword expansion pipeline.    *)
(*                                                                         *)
(* A Python str is modelled as a sequence of one-character strings, so     *)
(* that lower(), strip(), the two re.sub() fence removals, json.loads()    *)
(* and re.findall() are computed character by character, as the code       *)
(* computes them.                                                          *)
(*                                                                         *)
(* Three specifications share the operators:                               *)
(*   Spec       main(): the run over the two categories                    *)
(*   SpecParse  expand_keywords() applied to one outcome of the API call   *)
(*   SpecMerge  deduplicate(base + expanded) over arbitrary small lists    *)
(***************************************************************************)
EXTENDS Integers, Sequences, FiniteSets

VARIABLES
  pc,                \* position in main() / in the unit under check
  api_key,           \* main: whether OPENAI_API_KEY / OPENAI_KEY is set
  call_daw,          \* main: outcome of the API call made for "daw"
  call_arranger,     \* main: outcome of the API call made for "arranger"
  expanded_daw,      \* main: expanded_daw
  expanded_arranger, \* main: expanded_arranger
  result,            \* main: the result dict, once built
  written,           \* main: whether expanded_keywords.json was written
  resp,              \* SpecParse: the outcome of the API call
  ret,               \* SpecParse: what expand_keywords returned
  B,                 \* SpecMerge: base list
  E,                 \* SpecMerge: expanded list
  all,               \* SpecMerge: deduplicate(B + E)
  prev               \* SpecMerge: the list before the last deduplicate

vars == <<pc, api_key, call_daw, call_arranger, expanded_daw, expanded_arranger,
          result, written, resp, ret, B, E, all, prev>>

None == "None"

----------------------------------------------------------------------------
(* Bounds of the inputs *)

MaxBase == 2
MaxExpanded == 2
MaxItems == 2

----------------------------------------------------------------------------
(* str: characters, lower(), strip() *)

Q == "\""
BS == "\\"
NL == "\n"
SP == " "

Whitespace == {" ", "\n", "\t", "\r"}

LowerOf ==
  [A |-> "a", B |-> "b", C |-> "c", D |-> "d", E |-> "e", F |-> "f", G |-> "g",
   H |-> "h", I |-> "i", J |-> "j", K |-> "k", L |-> "l", M |-> "m", N |-> "n",
   O |-> "o", P |-> "p", Q |-> "q", R |-> "r", S |-> "s", T |-> "t", U |-> "u",
   V |-> "v", W |-> "w", X |-> "x", Y |-> "y", Z |-> "z"]

LowerChar(c) == IF c \in DOMAIN LowerOf THEN LowerOf[c] ELSE c

lower(s) == [i \in 1..Len(s) |-> LowerChar(s[i])]

SetMin(S) == CHOOSE x \in S : \A y \in S : x <= y
SetMax(S) == CHOOSE x \in S : \A y \in S : x >= y

strip(s) ==
  LET keep == {i \in 1..Len(s) : s[i] \notin Whitespace}
  IN  IF keep = {} THEN <<>> ELSE SubSeq(s, SetMin(keep), SetMax(keep))

----------------------------------------------------------------------------
(* deduplicate(keywords), lines 97-106 *)

RECURSIVE dedup_loop(_, _, _, _)
dedup_loop(keywords, i, seen, out) ==
  IF i > Len(keywords) THEN out
  ELSE LET kw_lower == strip(lower(keywords[i]))
       IN  IF kw_lower # <<>> /\ kw_lower \notin seen
           THEN dedup_loop(keywords, i + 1, seen \cup {kw_lower}, Append(out, kw_lower))
           ELSE dedup_loop(keywords, i + 1, seen, out)

RECURSIVE dedup_loop_noSeen(_, _, _, _)
dedup_loop_noSeen(keywords, i, seen, out) ==
  IF i > Len(keywords) THEN out
  ELSE LET kw_lower == strip(lower(keywords[i]))
       IN  IF kw_lower # <<>>
           THEN dedup_loop_noSeen(keywords, i + 1, seen, Append(out, kw_lower))
           ELSE dedup_loop_noSeen(keywords, i + 1, seen, out)

deduplicate_noSeen(keywords) == dedup_loop_noSeen(keywords, 1, {}, <<>>)

RECURSIVE dedup_loop_rawSeen(_, _, _, _)
dedup_loop_rawSeen(keywords, i, seen, out) ==
  IF i > Len(keywords) THEN out
  ELSE LET kw_lower == strip(lower(keywords[i]))
       IN  IF kw_lower # <<>> /\ kw_lower \notin seen
           THEN dedup_loop_rawSeen(keywords, i + 1, seen \cup {keywords[i]},
                                   Append(out, kw_lower))
           ELSE dedup_loop_rawSeen(keywords, i + 1, seen, out)

deduplicate_rawSeen(keywords) == dedup_loop_rawSeen(keywords, 1, {}, <<>>)

RECURSIVE dedup_loop_keepEmpty(_, _, _, _)
dedup_loop_keepEmpty(keywords, i, seen, out) ==
  IF i > Len(keywords) THEN out
  ELSE LET kw_lower == strip(lower(keywords[i]))
       IN  IF kw_lower \notin seen
           THEN dedup_loop_keepEmpty(keywords, i + 1, seen \cup {kw_lower},
                                     Append(out, kw_lower))
           ELSE dedup_loop_keepEmpty(keywords, i + 1, seen, out)

deduplicate_keepEmpty(keywords) == dedup_loop_keepEmpty(keywords, 1, {}, <<>>)

deduplicate(keywords) == dedup_loop(keywords, 1, {}, <<>>)

combine_expandedOnly(base, expanded) == deduplicate(expanded)

combine_expandedFirst(base, expanded) == deduplicate(expanded \o base)

(* main, lines 152-153: deduplicate(base + expanded) *)
combine(base, expanded) == deduplicate(base \o expanded)

----------------------------------------------------------------------------
(* The two re.sub calls of lines 69-70 (three backticks and "json", then   *)
(* three backticks, each with \s* after it): every occurrence of the       *)
(* literal, with the whitespace that follows it, is removed, scanning left *)
(* to right. BT stands for the backtick character.                         *)

At(s, i) == IF i >= 1 /\ i <= Len(s) THEN s[i] ELSE ""

starts_at(s, i, lit) ==
  /\ i + Len(lit) - 1 <= Len(s)
  /\ SubSeq(s, i, i + Len(lit) - 1) = lit

RECURSIVE skip_space(_, _)
skip_space(s, i) == IF At(s, i) \in Whitespace THEN skip_space(s, i + 1) ELSE i

RECURSIVE re_sub_from(_, _, _)
re_sub_from(s, lit, i) ==
  IF i > Len(s) THEN <<>>
  ELSE IF starts_at(s, i, lit)
       THEN re_sub_from(s, lit, skip_space(s, i + Len(lit)))
       ELSE <<s[i]>> \o re_sub_from(s, lit, i + 1)

re_sub(lit, s) == re_sub_from(s, lit, 1)

BT == "<backtick>"

FENCE == <<BT, BT, BT>>
FENCE_JSON == FENCE \o <<"j", "s", "o", "n">>

(* lines 66-71; raw is response.choices[0].message.content *)
clean_content(raw) == strip(re_sub(FENCE, re_sub(FENCE_JSON, strip(raw))))

----------------------------------------------------------------------------
(* re.findall(r'"([^"]+)"', content), line 87: leftmost, non-overlapping    *)
(* matches; a match needs at least one character between the two quotes.   *)

RECURSIVE next_quote(_, _)
next_quote(s, i) ==
  IF i > Len(s) THEN 0 ELSE IF s[i] = Q THEN i ELSE next_quote(s, i + 1)

RECURSIVE findall_from(_, _)
findall_from(s, i) ==
  IF i > Len(s) THEN <<>>
  ELSE IF s[i] = Q
       THEN LET j == next_quote(s, i + 1)
            IN  IF j > i + 1
                THEN <<SubSeq(s, i + 1, j - 1)>> \o findall_from(s, j + 1)
                ELSE findall_from(s, i + 1)
       ELSE findall_from(s, i + 1)

findall_quoted(content) == findall_from(content, 1)

----------------------------------------------------------------------------
(* json.loads(content), line 75: the scanner of the json module, for       *)
(* strings (with the escapes \" \\ \/ \n \t \r \f; \b and \uXXXX are not   *)
(* among the characters of the inputs), numbers, the literals, arrays and  *)
(* objects. A failure is json.JSONDecodeError.                             *)

JV(t, str, items) == [t |-> t, s |-> str, items |-> items]
JOk(v, pos) == [ok |-> TRUE, val |-> v, pos |-> pos]
JFail == [ok |-> FALSE, val |-> JV("error", <<>>, <<>>), pos |-> 0]

JsonWhitespace == {" ", "\t", "\n", "\r"}
ControlChars == {"\n", "\t", "\r", "\f"}
Digits == {"0", "1", "2", "3", "4", "5", "6", "7", "8", "9"}

Unescape(c) ==
  CASE c = "n" -> "\n" [] c = "t" -> "\t" [] c = "r" -> "\r" [] c = "f" -> "\f"
    [] OTHER -> c

RECURSIVE skip_ws(_, _)
skip_ws(s, i) == IF At(s, i) \in JsonWhitespace THEN skip_ws(s, i + 1) ELSE i

(* py_scanstring, strict: j is the index after the opening quote *)
RECURSIVE scanstring(_, _, _)
scanstring(s, j, acc) ==
  IF j > Len(s) THEN JFail
  ELSE IF s[j] = Q THEN JOk(JV("str", acc, <<>>), j + 1)
  ELSE IF s[j] \in ControlChars THEN JFail
  ELSE IF s[j] = BS
       THEN IF At(s, j + 1) \in {Q, BS, "/", "n", "t", "r", "f"}
            THEN scanstring(s, j + 2, Append(acc, Unescape(s[j + 1])))
            ELSE JFail
  ELSE scanstring(s, j + 1, Append(acc, s[j]))

RECURSIVE digits_end(_, _)
digits_end(s, i) == IF At(s, i) \in Digits THEN digits_end(s, i + 1) ELSE i

\* NUMBER_RE matched at i: an optional minus, then 0 or a run of digits not
\* starting with 0, then optionally a point and digits, then optionally e or
\* E, an optional sign and digits. The index after the match, 0 when none.
number_end(s, i) ==
  LET k == IF At(s, i) = "-" THEN i + 1 ELSE i
  IN  IF At(s, k) \notin Digits THEN 0
      ELSE LET e == IF s[k] = "0" THEN k + 1 ELSE digits_end(s, k)
               f == IF At(s, e) = "." /\ At(s, e + 1) \in Digits
                    THEN digits_end(s, e + 1) ELSE e
               g == IF At(s, f + 1) \in {"+", "-"} THEN f + 2 ELSE f + 1
           IN  IF At(s, f) \in {"e", "E"} /\ At(s, g) \in Digits
               THEN digits_end(s, g) ELSE f

RECURSIVE scan_once(_, _)
RECURSIVE array_items(_, _, _)
RECURSIVE object_members(_, _)

(* JSONArray: i is the index after "[" *)
JSONArray(s, i) ==
  LET k == skip_ws(s, i)
  IN  IF At(s, k) = "]" THEN JOk(JV("array", <<>>, <<>>), k + 1)
      ELSE array_items(s, k, <<>>)

array_items(s, k, acc) ==
  LET v == scan_once(s, k)
  IN  IF ~v.ok THEN JFail
      ELSE LET e == skip_ws(s, v.pos)
           IN  IF At(s, e) = "]"
               THEN JOk(JV("array", <<>>, Append(acc, v.val)), e + 1)
               ELSE IF At(s, e) = ","
                    THEN array_items(s, skip_ws(s, e + 1), Append(acc, v.val))
                    ELSE JFail

(* JSONObject: i is the index after "{" *)
JSONObject(s, i) ==
  LET k == skip_ws(s, i)
  IN  IF At(s, k) = "}" THEN JOk(JV("object", <<>>, <<>>), k + 1)
      ELSE IF At(s, k) = Q THEN object_members(s, k + 1)
      ELSE JFail

(* one "key": value pair and what follows it; j is the index after the     *)
(* key's opening quote                                                     *)
object_members(s, j) ==
  LET key == scanstring(s, j, <<>>)
  IN  IF ~key.ok THEN JFail
      ELSE LET c == skip_ws(s, key.pos)
           IN  IF At(s, c) # ":" THEN JFail
               ELSE LET v == scan_once(s, skip_ws(s, c + 1))
                    IN  IF ~v.ok THEN JFail
                        ELSE LET e == skip_ws(s, v.pos)
                                 n == skip_ws(s, e + 1)
                             IN  IF At(s, e) = "}"
                                 THEN JOk(JV("object", <<>>, <<>>), e + 1)
                                 ELSE IF At(s, e) = "," /\ At(s, n) = Q
                                      THEN object_members(s, n + 1)
                                      ELSE JFail

Literal(s, i, lit) ==
  IF starts_at(s, i, lit) THEN JOk(JV("literal", lit, <<>>), i + Len(lit)) ELSE JFail

scan_once(s, i) ==
  LET c == At(s, i)
      m == number_end(s, i)
  IN  IF c = "" THEN JFail
      ELSE IF c = Q THEN scanstring(s, i + 1, <<>>)
      ELSE IF c = "{" THEN JSONObject(s, i + 1)
      ELSE IF c = "[" THEN JSONArray(s, i + 1)
      ELSE IF c = "n" /\ starts_at(s, i, <<"n","u","l","l">>)
           THEN Literal(s, i, <<"n","u","l","l">>)
      ELSE IF c = "t" /\ starts_at(s, i, <<"t","r","u","e">>)
           THEN Literal(s, i, <<"t","r","u","e">>)
      ELSE IF c = "f" /\ starts_at(s, i, <<"f","a","l","s","e">>)
           THEN Literal(s, i, <<"f","a","l","s","e">>)
      ELSE IF m # 0 THEN JOk(JV("number", SubSeq(s, i, m - 1), <<>>), m)
      ELSE IF c = "N" THEN Literal(s, i, <<"N","a","N">>)
      ELSE IF c = "I" THEN Literal(s, i, <<"I","n","f","i","n","i","t","y">>)
      ELSE IF c = "-" THEN Literal(s, i, <<"-","I","n","f","i","n","i","t","y">>)
      ELSE JFail

(* JSONDecoder.decode: leading whitespace, one value, trailing whitespace, *)
(* and nothing else ("Extra data")                                         *)
json_loads(s) ==
  LET v == scan_once(s, skip_ws(s, 1))
  IN  IF v.ok /\ skip_ws(s, v.pos) = Len(s) + 1 THEN v ELSE JFail

----------------------------------------------------------------------------
(* expand_keywords(client, keywords, category), lines 30-94.               *)
(* The outcome of client.chat.completions.create and of                    *)
(* response.choices[0].message.content is the input:                       *)
(*   kind "content"  the call returned and content is a str                *)
(*   kind "no_content"  the call returned and content is None              *)
(*   kind "raise"    the call raised                                       *)
(* What the function does is a record too: kind "list" (it returned the    *)
(* list val), "none" (it returned None) or "raise" (an exception left it); *)
(* path names the branch that produced it.                                 *)

Resp(kind, content) == [kind |-> kind, content |-> content]
Ret(kind, val, path) == [kind |-> kind, val |-> val, path |-> path]

RECURSIVE normalize_folding(_, _, _)
normalize_folding(keywords_list, i, normalized) ==
  IF i > Len(keywords_list) THEN normalized
  ELSE LET kw == strip(lower(keywords_list[i].s))
       IN  IF /\ keywords_list[i].t = "str" /\ kw # <<>> /\ Len(kw) > 1
              /\ \A k \in 1..Len(normalized) : normalized[k] # kw
           THEN normalize_folding(keywords_list, i + 1, Append(normalized, kw))
           ELSE normalize_folding(keywords_list, i + 1, normalized)

(* lines 78-84 *)
RECURSIVE normalize(_, _, _)
normalize(keywords_list, i, normalized) ==
  IF i > Len(keywords_list) THEN normalized
  ELSE LET kw == strip(lower(keywords_list[i].s))
       IN  IF keywords_list[i].t = "str" /\ kw # <<>> /\ Len(kw) > 1
           THEN normalize(keywords_list, i + 1, Append(normalized, kw))
           ELSE normalize(keywords_list, i + 1, normalized)

(* lines 87-88 *)
RECURSIVE fallback_filter(_, _)
fallback_filter(keywords_list, i) ==
  IF i > Len(keywords_list) THEN <<>>
  ELSE LET kw == keywords_list[i]
       IN  IF strip(kw) # <<>> /\ Len(strip(kw)) > 1
           THEN <<strip(lower(kw))>> \o fallback_filter(keywords_list, i + 1)
           ELSE fallback_filter(keywords_list, i + 1)

fallback_extract(content) == fallback_filter(findall_quoted(content), 1)

parse_content_noFinalReturn(content) ==
  LET keywords_list == json_loads(content)
  IN  IF keywords_list.ok
      THEN IF keywords_list.val.t = "array"
           THEN Ret("list", normalize(keywords_list.val.items, 1, <<>>), "strict")
           ELSE Ret("none", <<>>, "not_list")
      ELSE Ret("list", fallback_extract(content), "fallback")

parse_content_fallbackNotList(content) ==
  LET keywords_list == json_loads(content)
  IN  IF keywords_list.ok /\ keywords_list.val.t = "array"
      THEN Ret("list", normalize(keywords_list.val.items, 1, <<>>), "strict")
      ELSE Ret("list", fallback_extract(content), "fallback")

(* lines 74-90 *)
parse_content(content) ==
  LET keywords_list == json_loads(content)
  IN  IF keywords_list.ok
      THEN IF keywords_list.val.t = "array"
           THEN Ret("list", normalize(keywords_list.val.items, 1, <<>>), "strict")
           ELSE Ret("list", <<>>, "not_list")
      ELSE Ret("list", fallback_extract(content), "fallback")

(* lines 58-90, the body of the outer try *)
try_body(r) ==
  IF r.kind = "raise" THEN Ret("raise", <<>>, "call")
  ELSE IF r.kind = "no_content" THEN Ret("raise", <<>>, "strip")
  ELSE parse_content(clean_content(r.content))

expand_keywords_noCatch(r) == try_body(r)

(* lines 57-94: except Exception returns [] *)
expand_keywords(r) ==
  LET x == try_body(r)
  IN  IF x.kind = "raise" THEN Ret("list", <<>>, "except") ELSE x

----------------------------------------------------------------------------
(* Inputs of SpecMerge *)

W_ab == <<"a", "b">>
W_AB_sp == <<"A", "B", " ">>
W_cd == <<"c", "d">>
W_C == <<"C">>
W_blank == <<" ">>
W_empty == <<>>

W_track == <<"t","r","a","c","k">>
W_fx == <<"f","x">>
W_reverb == <<"r","e","v","e","r","b">>
W_echo == <<"e","c","h","o">>

Words == {W_ab, W_AB_sp, W_cd, W_C, W_blank, W_empty}

SeqsUpTo(S, n) == UNION {[1..k -> S] : k \in 0..n}

ExamplePairs ==
  { <<(<<W_track, W_fx>>), (<<W_track, W_reverb, W_fx, W_echo>>)>> }

MergeInputs ==
  (SeqsUpTo(Words, MaxBase) \X SeqsUpTo(Words, MaxExpanded)) \cup ExamplePairs

----------------------------------------------------------------------------
(* SpecMerge *)

InitMerge ==
  /\ pc = "merge"
  /\ \E p \in MergeInputs : B = p[1] /\ E = p[2]
  /\ all = None /\ prev = None
  /\ api_key = None /\ call_daw = None /\ call_arranger = None
  /\ expanded_daw = None /\ expanded_arranger = None
  /\ result = None /\ written = None /\ resp = None /\ ret = None

Merge ==
  /\ pc = "merge"
  /\ all' = combine(B, E)
  /\ pc' = "merged"
  /\ UNCHANGED <<api_key, call_daw, call_arranger, expanded_daw, expanded_arranger,
                 result, written, resp, ret, B, E, prev>>

Dedupe ==
  /\ pc = "merged"
  /\ prev' = all
  /\ all' = deduplicate(all)
  /\ pc' = "deduped"
  /\ UNCHANGED <<api_key, call_daw, call_arranger, expanded_daw, expanded_arranger,
                 result, written, resp, ret, B, E>>

NextMerge == Merge \/ Dedupe

SpecMerge == InitMerge /\ [][NextMerge]_vars

----------------------------------------------------------------------------
(* Inputs of SpecParse: the replies of the model. A generated reply is     *)
(* prefix, opening bracket, up to MaxItems items joined by a separator,    *)
(* closing bracket, suffix; the rest are the replies the specification     *)
(* and the prompt name.                                                    *)

Quoted(w) == <<Q>> \o w \o <<Q>>

Item_ab == Quoted(W_ab)
Item_AB_sp == Quoted(W_AB_sp)
Item_c == Quoted(<<"c">>)
Item_emptystr == Quoted(<<>>)
Item_number == <<"1">>
Item_nested == <<"[">> \o Quoted(W_cd) \o <<"]">>
Item_member == Quoted(W_cd) \o <<":">> \o Quoted(W_ab)
Item_bare == W_cd

Items == {Item_ab, Item_AB_sp, Item_c, Item_emptystr, Item_number, Item_nested,
          Item_member, Item_bare}

Prefixes == {<<>>, FENCE_JSON \o <<NL>>, FENCE \o <<NL>>, <<"x", ":", SP>>, <<SP, NL>>}
Opens == {<<"[">>, <<"{">>, <<>>}
Separators == {<<",", SP>>, <<SP>>}
Closes == {<<"]">>, <<"}">>, <<",", "]">>, <<>>}
Suffixes == {<<>>, <<NL>> \o FENCE, <<SP, "x">>}

RECURSIVE Join(_, _)
Join(items, sep) ==
  IF items = <<>> THEN <<>>
  ELSE IF Len(items) = 1 THEN items[1]
  ELSE items[1] \o sep \o Join(Tail(items), sep)

GeneratedPayloads ==
  { pre \o op \o Join(items, sep) \o cl \o suf :
      pre \in Prefixes, op \in Opens, items \in SeqsUpTo(Items, MaxItems),
      sep \in Separators, cl \in Closes, suf \in Suffixes }

W_Reverb == <<"R","e","v","e","r","b">>
W_REVERB_sp == <<"R","E","V","E","R","B"," ">>
W_delay == <<"d","e","l","a","y">>
W_verb == <<"v","e","r","b">>
W_keywords == <<"k","e","y","w","o","r","d","s">>

(* '["Reverb", "REVERB ", "echo"]' *)
Payload_Reverb ==
  <<"[">> \o Quoted(W_Reverb) \o <<",", SP>> \o Quoted(W_REVERB_sp) \o <<",", SP>>
    \o Quoted(W_echo) \o <<"]">>

(* the fenced block: fence with json, newline, ["a","bb"], newline, fence *)
Payload_Fenced ==
  FENCE_JSON \o <<NL, "[">> \o Quoted(<<"a">>) \o <<",">> \o Quoted(<<"b","b">>)
    \o <<"]", NL>> \o FENCE

(* 'Sure! Here: "delay" and "verb" are related.' *)
Payload_Prose ==
  <<"S","u","r","e","!",SP,"H","e","r","e",":",SP>> \o Quoted(W_delay)
    \o <<SP,"a","n","d",SP>> \o Quoted(W_verb)
    \o <<SP,"a","r","e",SP,"r","e","l","a","t","e","d",".">>

Payload_Empty == <<>>

(* '{"keywords": ["reverb"]}' *)
Payload_Object ==
  <<"{">> \o Quoted(W_keywords) \o <<":", SP, "[">> \o Quoted(W_reverb) \o <<"]", "}">>

(* '"reverb"', a bare JSON string *)
Payload_BareString == Quoted(W_reverb)

(* '-12.5e+3', a number *)
Payload_Number == <<"-","1","2",".","5","e","+","3">>

(* '[1, null, true, ["fx"], "Echo", "a\"b"]' *)
Payload_Mixed ==
  <<"[","1",",",SP,"n","u","l","l",",",SP,"t","r","u","e",",",SP,"[">> \o Quoted(W_fx)
    \o <<"]",",",SP>> \o Quoted(<<"E","c","h","o">>) \o <<",",SP>>
    \o Quoted(<<"a",BS,Q,"b">>) \o <<"]">>

(* '["reverb", "", "echo"', a reply cut short *)
Payload_Truncated ==
  <<"[">> \o Quoted(W_reverb) \o <<",", SP>> \o Quoted(<<>>) \o <<",", SP>>
    \o Quoted(W_echo)

ExamplePayloads ==
  {Payload_Reverb, Payload_Fenced, Payload_Prose, Payload_Empty, Payload_Object,
   Payload_BareString, Payload_Number, Payload_Mixed, Payload_Truncated}

Payloads == GeneratedPayloads \cup ExamplePayloads

Responses ==
  {Resp("raise", <<>>), Resp("no_content", <<>>)}
    \cup {Resp("content", p) : p \in Payloads}

----------------------------------------------------------------------------
(* SpecParse *)

InitParse ==
  /\ pc = "call"
  /\ resp \in Responses
  /\ ret = None
  /\ B = None /\ E = None /\ all = None /\ prev = None
  /\ api_key = None /\ call_daw = None /\ call_arranger = None
  /\ expanded_daw = None /\ expanded_arranger = None
  /\ result = None /\ written = None

Expand ==
  /\ pc = "call"
  /\ ret' = expand_keywords(resp)
  /\ pc' = "returned"
  /\ UNCHANGED <<api_key, call_daw, call_arranger, expanded_daw, expanded_arranger,
                 result, written, resp, B, E, all, prev>>

NextParse == Expand

SpecParse == InitParse /\ [][NextParse]_vars

----------------------------------------------------------------------------
(* main(), lines 109-171 *)

daw_keywords ==
  <<
    <<"t","r","a","c","k">>, <<"c","l","i","p">>, <<"f","x">>, <<"v","o","l","u","m","e">>,
    <<"p","a","n">>, <<"m","u","t","e">>, <<"s","o","l","o">>, <<"r","e","a","p","e","r">>,
    <<"d","a","w">>, <<"c","r","e","a","t","e">>, <<"d","e","l","e","t","e">>,
    <<"m","o","v","e">>, <<"s","e","l","e","c","t">>, <<"c","o","l","o","r">>,
    <<"r","e","n","a","m","e">>, <<"a","d","d">>, <<"r","e","m","o","v","e">>,
    <<"e","n","a","b","l","e">>, <<"d","i","s","a","b","l","e">>,
    <<"i","n","s","t","r","u","m","e","n","t">>, <<"p","l","u","g","i","n">>,
    <<"e","f","f","e","c","t">>, <<"c","o","m","p","r","e","s","s","o","r">>,
    <<"r","e","v","e","r","b">>, <<"e","q">>, <<"m","i","x">>, <<"m","a","s","t","e","r">>,
    <<"b","u","s">>, <<"s","e","n","d">>, <<"r","e","t","u","r","n">>
  >>

arranger_keywords ==
  <<
    <<"c","h","o","r","d">>, <<"p","r","o","g","r","e","s","s","i","o","n">>,
    <<"m","e","l","o","d","y">>, <<"n","o","t","e">>, <<"n","o","t","e","s">>, <<"I">>,
    <<"V","I">>, <<"I","V">>, <<"V">>, <<"i","i">>, <<"i","i","i">>, <<"v","i","i">>,
    <<"r","o","m","a","n">>, <<"s","c","a","l","e">>, <<"h","a","r","m","o","n","y">>,
    <<"s","e","q","u","e","n","c","e">>, <<"p","a","t","t","e","r","n">>,
    <<"m","a","j","o","r">>, <<"m","i","n","o","r">>,
    <<"d","i","m","i","n","i","s","h","e","d">>, <<"a","u","g","m","e","n","t","e","d">>,
    <<"t","r","i","a","d">>, <<"s","e","v","e","n","t","h">>, <<"n","i","n","t","h">>,
    <<"a","r","p","e","g","g","i","o">>, <<"b","a","s","s","l","i","n","e">>,
    <<"r","i","f","f">>, <<"h","o","o","k">>, <<"g","r","o","o","v","e">>, <<"l","i","c","k">>,
    <<"p","h","r","a","s","e">>, <<"m","o","t","i","f">>, <<"o","s","t","i","n","a","t","o">>,
    <<"f","i","l","l">>, <<"b","r","e","a","k">>, <<"C">>, <<"D">>, <<"E">>, <<"F">>, <<"G">>,
    <<"A">>, <<"B">>, <<"s","h","a","r","p">>, <<"f","l","a","t">>,
    <<"n","a","t","u","r","a","l">>, <<"p","e","n","t","a","t","o","n","i","c">>,
    <<"d","o","r","i","a","n">>, <<"m","i","x","o","l","y","d","i","a","n">>,
    <<"s","u","s","2">>, <<"s","u","s","4">>, <<"a","d","d","9">>
  >>

(* the outcomes of the API call a run of main() is checked with *)
PipelineResponses ==
  {Resp("raise", <<>>), Resp("no_content", <<>>)}
    \cup {Resp("content", p) : p \in ExamplePayloads}

NotCalled == Resp("not_called", <<>>)
Unset == Ret("unset", <<>>, "")
NoResult == <<>>

Init ==
  /\ pc = "start"
  /\ api_key \in BOOLEAN
  /\ call_daw = NotCalled /\ call_arranger = NotCalled
  /\ expanded_daw = Unset /\ expanded_arranger = Unset
  /\ result = NoResult /\ written = FALSE
  /\ resp = None /\ ret = None
  /\ B = None /\ E = None /\ all = None /\ prev = None

(* lines 111-120: without an API key main returns *)
GetApiKey ==
  /\ pc = "start"
  /\ pc' = IF api_key THEN "expand_daw" ELSE "exit"
  /\ UNCHANGED <<api_key, call_daw, call_arranger, expanded_daw, expanded_arranger,
                 result, written, resp, ret, B, E, all, prev>>

(* lines 145-146: expanded_daw is what expand_keywords did (its list is    *)
(* expanded_daw.val); an exception that leaves expand_keywords ends main   *)
ExpandDaw ==
  /\ pc = "expand_daw"
  /\ \E r \in PipelineResponses :
       /\ call_daw' = r
       /\ expanded_daw' = expand_keywords(r)
  /\ pc' = IF expanded_daw'.kind = "raise" THEN "crashed" ELSE "expand_arranger"
  /\ UNCHANGED <<api_key, call_arranger, expanded_arranger,
                 result, written, resp, ret, B, E, all, prev>>

(* lines 148-149 *)
ExpandArranger ==
  /\ pc = "expand_arranger"
  /\ \E r \in PipelineResponses :
       /\ call_arranger' = r
       /\ expanded_arranger' = expand_keywords(r)
  /\ pc' = IF expanded_arranger'.kind = "raise" THEN "crashed" ELSE "combine"
  /\ UNCHANGED <<api_key, call_daw, expanded_daw,
                 result, written, resp, ret, B, E, all, prev>>

(* lines 151-158; list + None is a TypeError *)
Combine ==
  /\ pc = "combine"
  /\ IF expanded_daw.kind # "list" \/ expanded_arranger.kind # "list"
     THEN pc' = "crashed" /\ UNCHANGED result
     ELSE /\ result' = [daw |-> combine(daw_keywords, expanded_daw.val),
                        arranger |-> combine(arranger_keywords, expanded_arranger.val)]
          /\ pc' = "output"
  /\ UNCHANGED <<api_key, call_daw, call_arranger, expanded_daw, expanded_arranger,
                 written, resp, ret, B, E, all, prev>>

(* lines 160-171 *)
Output ==
  /\ pc = "output"
  /\ written' = TRUE
  /\ pc' = "done"
  /\ UNCHANGED <<api_key, call_daw, call_arranger, expanded_daw, expanded_arranger,
                 result, resp, ret, B, E, all, prev>>

Next == GetApiKey \/ ExpandDaw \/ ExpandArranger \/ Combine \/ Output

Spec == Init /\ [][Next]_vars

----------------------------------------------------------------------------
(* Properties of the run, checked under Spec *)

\* C9: if the call for one category raises, that category's expansion is the
\* empty list and the run still reaches its end: the result has both keys,
\* the failed category's list is deduplicate(base), and the other category's
\* list is what its own reply gives, whatever happened to the failed call.
C9_FailureIsolated ==
  /\ pc \in {"start", "exit", "expand_daw", "expand_arranger", "combine", "output", "done"}
  /\ (pc \in {"expand_arranger", "combine", "output", "done"} /\ call_daw.kind = "raise") =>
       expanded_daw = Ret("list", <<>>, "except")
  /\ (pc \in {"combine", "output", "done"} /\ call_arranger.kind = "raise") =>
       expanded_arranger = Ret("list", <<>>, "except")
  /\ pc \in {"output", "done"} => DOMAIN result = {"daw", "arranger"}
  /\ (pc = "done" /\ call_daw.kind = "raise") =>
       /\ result.daw = deduplicate(daw_keywords)
       /\ result.arranger =
            combine(arranger_keywords, expand_keywords(call_arranger).val)
  /\ (pc = "done" /\ call_arranger.kind = "raise") =>
       /\ result.arranger = deduplicate(arranger_keywords)
       /\ result.daw = combine(daw_keywords, expand_keywords(call_daw).val)

C9_Witness ==
  /\ pc = "done"
  /\ call_daw.kind = "raise"
  /\ call_arranger = Resp("content", Payload_Reverb)
  /\ result.daw = deduplicate(daw_keywords)
  /\ Len(result.arranger) = Len(arranger_keywords) + 2
  /\ written

----------------------------------------------------------------------------
(* Properties of the merge, checked under SpecMerge *)

Norm(w) == strip(lower(w))
Range(f) == {f[i] : i \in DOMAIN f}
NormSet(L) == {Norm(L[i]) : i \in DOMAIN L}
FirstIdx(X, w) == SetMin({k \in 1..Len(X) : Norm(X[k]) = w})

\* C1: the merged list deduplicate(B + E) contains no two entries that are
\* equal after lowercasing and trimming.
C1_NoDuplicates ==
  pc = "merged" =>
    \A i, j \in 1..Len(all) : i # j => Norm(all[i]) # Norm(all[j])

C1_Witness ==
  /\ pc = "merged"
  /\ W_ab \in Range(B) /\ W_AB_sp \in Range(E)
  /\ Len(all) >= 2

\* C2 as stated: the merged list never contains an empty string or a string
\* of length <= 1.
C2_Original ==
  pc = "merged" => \A i \in 1..Len(all) : Len(all[i]) > 1

\* C2 as amended: the merged list never contains an empty string, and every
\* entry is lowercased and trimmed; a string of length 1 is kept, so a base
\* keyword of one character appears (lowercased) in the merged output.
C2_NoEmptyKeepsSingle ==
  pc = "merged" =>
    /\ \A i \in 1..Len(all) : Len(all[i]) >= 1 /\ all[i] = Norm(all[i])
    /\ \A i \in 1..Len(B) : Len(Norm(B[i])) = 1 => Norm(B[i]) \in Range(all)

C2_Witness ==
  /\ pc = "merged"
  /\ W_C \in Range(B) /\ W_blank \in Range(B)
  /\ <<"c">> \in Range(all)

\* C3: every element of B whose lowercased, trimmed form has length >= 2
\* appears, in that form, in the merged list, whatever E contains.
C3_BaseKept ==
  pc = "merged" =>
    \A i \in 1..Len(B) : Len(Norm(B[i])) >= 2 => Norm(B[i]) \in Range(all)

C3_Witness ==
  /\ pc = "merged"
  /\ Len(B) = 2 /\ Len(Norm(B[1])) >= 2 /\ Len(Norm(B[2])) >= 2
  /\ Norm(B[1]) # Norm(B[2])
  /\ \E k \in 1..Len(E) : Norm(E[k]) = Norm(B[2]) /\ E[k] # B[2]

\* C4: the merged list is ordered first-occurrence-wins over B followed by E:
\* its entries are the non-empty normalised entries of B + E, each once, in
\* the order of their first occurrence, so base keywords precede the
\* keywords that only E has; merge(["track","fx"],
\* ["track","reverb","fx","echo"]) = ["track","fx","reverb","echo"].
C4_FirstOccurrenceOrder ==
  pc = "merged" =>
    LET X == B \o E IN
    /\ Range(all) = NormSet(X) \ {<<>>}
    /\ \A i, j \in 1..Len(all) :
         i < j => FirstIdx(X, all[i]) < FirstIdx(X, all[j])
    /\ \A i, j \in 1..Len(all) :
         (all[i] \in NormSet(B) /\ all[j] \notin NormSet(B)) => i < j
    /\ (B = <<W_track, W_fx>> /\ E = <<W_track, W_reverb, W_fx, W_echo>>)
         => all = <<W_track, W_fx, W_reverb, W_echo>>

C4_Witness ==
  /\ pc = "merged"
  /\ B = <<W_track, W_fx>> /\ E = <<W_track, W_reverb, W_fx, W_echo>>
  /\ all = <<W_track, W_fx, W_reverb, W_echo>>

IsKeywordList(L) ==
  \A i, j \in 1..Len(L) : i # j => Norm(L[i]) # Norm(L[j])

\* the KeywordList of the data model: unique, and no entry of length <= 1
IsLongKeywordList(L) ==
  /\ IsKeywordList(L)
  /\ \A i \in 1..Len(L) : Len(Norm(L[i])) > 1

IsNormalizedKeywordList(L) ==
  /\ IsKeywordList(L)
  /\ \A i \in 1..Len(L) : L[i] # <<>> /\ L[i] = Norm(L[i])

\* C8 as stated: for every KeywordList L (unique under case-insensitive,
\* trimmed comparison; here even without entries of length <= 1),
\* merge(L, L) = L.
C8_Original ==
  (pc = "merged" /\ E = B /\ IsLongKeywordList(B)) => all = B

\* C8 as amended: for every list L whose entries are non-empty, lowercased,
\* trimmed and pairwise distinct, merge(L, L) = deduplicate(L + L) equals L;
\* and for any list X, deduplicate(deduplicate(X)) = deduplicate(X).
C8_Idempotent ==
  /\ (pc = "merged" /\ E = B /\ IsNormalizedKeywordList(B)) => all = B
  /\ pc = "deduped" => all = prev

C8_Witness ==
  /\ pc = "deduped"
  /\ E = B /\ Len(B) = 2 /\ IsNormalizedKeywordList(B)
  /\ all = B

----------------------------------------------------------------------------
(* Properties of the parser, checked under SpecParse *)

Content == clean_content(resp.content)

Kept(candidates) ==
  SelectSeq([i \in 1..Len(candidates) |-> Norm(candidates[i])], LAMBDA w : Len(w) > 1)

StringsOf(items) ==
  LET strs == SelectSeq(items, LAMBDA v : v.t = "str")
  IN  [i \in 1..Len(strs) |-> strs[i].s]

QuotePositions(s) == SelectSeq([i \in 1..Len(s) |-> i], LAMBDA i : s[i] = Q)

\* the substrings between the 1st and 2nd quote, the 3rd and 4th, ...
PairedQuoted(s) ==
  LET qp == QuotePositions(s)
  IN  [k \in 1..(Len(qp) \div 2) |-> SubSeq(s, qp[2 * k - 1] + 1, qp[2 * k] - 1)]

\* no two quotes of s enclose text that would survive the length filter
NoCandidate(s) ==
  LET qp == QuotePositions(s)
  IN  \A a, b \in 1..Len(qp) :
        a < b => Len(Norm(SubSeq(s, qp[a] + 1, qp[b] - 1))) <= 1

C6_Total ==
  pc = "returned" =>
    /\ ret.kind = "list"
    /\ resp.kind # "content" => ret.val = <<>>
    /\ (resp.kind = "content" /\ NoCandidate(resp.content)) => ret.val = <<>>

C6_Witness ==
  /\ pc = "returned"
  /\ resp = Resp("content", Payload_Empty)
  /\ ret.kind = "list" /\ ret.val = <<>>

\* C7: when strict JSON parsing of the fence-stripped payload fails, the
\* result is the sequence, in scan order, of every substring enclosed in
\* double quotation marks, each lowercased and trimmed, those of trimmed
\* length <= 1 discarded.
C7_QuotedSubstrings ==
  (pc = "returned" /\ resp.kind = "content" /\ ~json_loads(Content).ok) =>
    ret.val = Kept(PairedQuoted(Content))

\* C10: the quoted-substring fallback runs only when strict JSON parsing
\* fails: valid JSON that is not an array yields the empty list whatever
\* quoted substrings it holds, and the non-string entries of a valid array
\* are skipped without the fallback running.
C10_FallbackOnlyOnDecodeError ==
  (pc = "returned" /\ resp.kind = "content") =>
    LET j == json_loads(Content) IN
    /\ ret.path = "fallback" <=> ~j.ok
    /\ (j.ok /\ j.val.t # "array") => ret.val = <<>>
    /\ (j.ok /\ j.val.t = "array") =>
         /\ Len(ret.val) <= Len(StringsOf(j.val.items))
         /\ \A w \in Range(ret.val) : w \in NormSet(StringsOf(j.val.items))
    /\ resp.content = Payload_Object => ret.val = <<>>
    /\ resp.content = Payload_BareString => ret.val = <<>>
    /\ resp.content = Payload_Number => ret.val = <<>>
    /\ resp.content = Payload_Mixed => ret.val = <<W_echo, <<"a", Q, "b">> >>

C10_Witness ==
  /\ pc = "returned"
  /\ resp = Resp("content", Payload_Object)
  /\ findall_quoted(Content) = <<W_keywords, W_reverb>>
  /\ ret.val = <<>>

============================================================================
